---- MODULE Spec2Model ----
(***************************************************************************)
(* State machine of the ATS core of src/src/App.tsx: the React state       *)
(* {jobs, selectedJobId}, the persistence mode, the localStorage snapshot, *)
(* the Supabase tables and the remote calls in flight.                     *)
(*                                                                         *)
(* Modelled fields.  A Job is [id, title, jd, candidates]; a Candidate is  *)
(* [id, stage, score, resume].  department/location follow the path of     *)
(* title, and name/email/phone/notes/tags/appliedAt follow the path of     *)
(* stage (copied from the patch when present, never defaulted to null in   *)
(* the update payload), so they are left out.                              *)
(***************************************************************************)
EXTENDS Integers, Sequences, FiniteSets, Bags, TLC

\* ------------------------------------------------------------------ bounds
\* Number of user events (handler invocations) explored in one behaviour.
MaxOps == 2

\* ------------------------------------------------------------ value domains
\* `null` / `undefined` for string-valued fields (FileRef, stage).
Null == "null"
\* `null` selectedJobId, and an id that resolves to no row or record.
NullId == 0
\* `undefined` score in the UI types, NULL score in a candidates row.
NoScore == -1

STAGES ==
  << "Sourced", "Interview: First Round", "Interview: Second Round",
     "Interview: Final round", "Hired", "Rejected" >>

StageSet == { STAGES[i] : i \in 1..Len(STAGES) }

\* Stage strings that reach the program from outside (rows written by another
\* client, an imported file) and are not among STAGES.
ForeignStages == { "Unknown", "applied" }

\* Inputs of the forms and of the drop targets.
StageInputs == { "Sourced", "Interview: First Round" }
TitleInputs == { "", "QA Engineer" }

\* ------------------------------------------------------------ pure helpers
isStage(s) == \E i \in 1..Len(STAGES) : STAGES[i] = s

\* String.prototype.toLowerCase on the strings of the model.
toLowerCase(s) ==
  CASE s = "Sourced" -> "sourced"
    [] s = "Interview: First Round" -> "interview: first round"
    [] s = "Interview: Second Round" -> "interview: second round"
    [] s = "Interview: Final round" -> "interview: final round"
    [] s = "Hired" -> "hired"
    [] s = "Rejected" -> "rejected"
    [] s = "Unknown" -> "unknown"
    [] s = "React" -> "react"
    [] s = "REACT" -> "react"
    [] s = "TypeScript" -> "typescript"
    [] s = "Docker" -> "docker"
    [] OTHER -> s

\* normalizeStage without the legacy names: whatever is not a Stage is Sourced.
normalizeStageStrict(s) == IF isStage(s) THEN s ELSE "Sourced"

normalizeStage(s) ==
  LET v == toLowerCase(IF s = Null THEN "" ELSE s) IN
    IF v = "applied" \/ v = "interview stage 1" THEN "Interview: First Round"
    ELSE IF v = "screening" \/ v = "interview stage 2" THEN "Interview: Second Round"
    ELSE IF v = "offer" \/ v = "interview" THEN "Interview: Final round"
    ELSE IF isStage(s) THEN s
    ELSE "Sourced"

\* { ...base, ...patch } for a patch whose keys are keys of base.
Spread(base, patch) ==
  [ f \in DOMAIN base |-> IF f \in DOMAIN patch THEN patch[f] ELSE base[f] ]

\* Array.prototype.map / filter / find on sequences.
Map(seq, F(_)) == [ i \in 1..Len(seq) |-> F(seq[i]) ]

Filter(seq, P(_)) == SelectSeq(seq, P)

Ids(seq) == { seq[i].id : i \in 1..Len(seq) }

\* jobs[0]?.id || null
FirstId(seq) == IF Len(seq) > 0 THEN seq[1].id ELSE NullId

\* A candidate as JSON.stringify writes it: a key whose value is undefined
\* (score, and tags where the candidate has none) is left out of the document.
stringifyCandidate(c) ==
  IF c.score # NoScore THEN c
  ELSE IF "tags" \in DOMAIN c
  THEN [ id |-> c.id, stage |-> c.stage, resume |-> c.resume, tags |-> c.tags ]
  ELSE [ id |-> c.id, stage |-> c.stage, resume |-> c.resume ]

\* A candidate as read from a parsed document: a key the document lacks reads
\* as undefined.
parsedCandidate(c) ==
  IF "score" \in DOMAIN c THEN c
  ELSE IF "tags" \in DOMAIN c
  THEN [ id |-> c.id, stage |-> c.stage, score |-> NoScore, resume |-> c.resume,
         tags |-> c.tags ]
  ELSE [ id |-> c.id, stage |-> c.stage, score |-> NoScore, resume |-> c.resume ]

\* The document of value s with every candidate written by W.
Document(s, W(_)) ==
  IF "jobs" \in DOMAIN s
  THEN [ s EXCEPT !.jobs = Map(s.jobs, LAMBDA j :
                                 [ j EXCEPT !.candidates = Map(j.candidates, W) ]) ]
  ELSE s

\* A JSON.stringify that writes no score at all.
JSONstringifyWithoutScores(s) ==
  [ kind |-> "json",
    doc |-> Document(s, LAMBDA c : [ k \in DOMAIN c \ { "score" } |-> c[k] ]) ]

\* JSON.stringify of the state: the text of a document holding its value.
JSONstringify(s) == [ kind |-> "json", doc |-> Document(s, stringifyCandidate) ]

\* JSON.parse of a text that is a JSON document.
JSONparse(text) == Document(text.doc, parsedCandidate)

\* localStorage.getItem of a key never set: null.
NoItem == [ kind |-> "absent", doc |-> [ jobs |-> << >>, selectedJobId |-> NullId ] ]

\* safeJSONParse(raw, fallback): the fallback for null, for the empty string and
\* for a text JSON.parse throws on.
safeJSONParse(raw, fallback) ==
  IF raw.kind = "json" THEN JSONparse(raw) ELSE fallback

\* Map DB rows to UI types: one candidates row.
candidateOfRow(r) ==
  [ id |-> r.id,
    stage |-> IF r.stage = Null \/ r.stage = "" THEN "Sourced" ELSE r.stage,
    score |-> r.score,
    resume |-> r.resume ]

\* Map DB rows to UI types.
mapRowsToState(jobsRows, candsRows) ==
  LET byJob(jid) == Map(Filter(candsRows, LAMBDA r : r.job_id = jid), candidateOfRow)
      jobs == Map(jobsRows, LAMBDA j : [ id |-> j.id, title |-> j.title, jd |-> j.jd,
                                         candidates |-> byJob(j.id) ])
  IN [ jobs |-> jobs, selectedJobId |-> FirstId(jobs) ]

\* ------------------------------------------------------------------- state
VARIABLES
  state,        \* useState<ATSState>: [jobs, selectedJobId]
  persistMode,  \* "local" | "supabase"
  filters,      \* useState filters: [tags], no score or date bound set
  supaReady,    \* a Supabase client is configured
  storage,      \* localStorage[STORAGE_KEY]
  remote,       \* the Supabase tables: [jobs, cands], jobs newest first
  inflight,     \* bag of the remote calls awaited by handlers
  nextId,       \* next fresh id (uid() locally, the row's uuid remotely)
  ops,          \* user events still to come
  shown         \* messages passed to show() by the last step

vars == << state, persistMode, filters, supaReady, storage, remote, inflight, nextId, ops, shown >>

\* The built-in demo state used when localStorage holds nothing usable.
SeedState ==
  [ jobs |-> << [ id |-> 1, title |-> "Frontend Engineer", jd |-> Null,
                  candidates |-> <<
                    [ id |-> 2, stage |-> "Interview: Second Round", score |-> 82, resume |-> Null ],
                    [ id |-> 3, stage |-> "Interview: First Round", score |-> 76, resume |-> Null ],
                    [ id |-> 4, stage |-> "Sourced", score |-> 68, resume |-> Null ] >> ] >>,
    selectedJobId |-> NullId ]

\* The component tree after a TypeError thrown while rendering: nothing is
\* mounted, no state is held and no effect runs.
Thrown == [ thrown |-> "TypeError" ]

\* Rendering App reads state.jobs (find, map): it throws on a state without jobs.
Renders(s) == "jobs" \in DOMAIN s

\* useState initializer of `state`: initial.jobs[0] throws on a document
\* without jobs, in which selectedJobId is missing as well.
InitialState(raw) ==
  LET initial == safeJSONParse(raw, SeedState) IN
    IF ~Renders(initial) THEN Thrown
    ELSE IF initial.selectedJobId = NullId /\ Len(initial.jobs) > 0
    THEN [ initial EXCEPT !.selectedJobId = initial.jobs[1].id ]
    ELSE initial

\* The job shown on the board: the selected one, else the first, else none.
job ==
  LET hit == Filter(state.jobs, LAMBDA j : j.id = state.selectedJobId) IN
    IF Len(hit) > 0 THEN << hit[1] >>
    ELSE IF Len(state.jobs) > 0 THEN << state.jobs[1] >>
    ELSE << >>

\* ------------------------------------------------------------ derived view
\* (c.tags || [])
tagsOf(c) == IF "tags" \in DOMAIN c THEN c.tags ELSE << >>

\* have.includes(t)
includes(seq, t) == \E k \in 1..Len(seq) : seq[k] = t

\* The tag filter keeping the candidates that carry one of the tags asked for.
filteredAnyTag(j) ==
  IF Len(filters.tags) > 0
  THEN LET need == Map(filters.tags, toLowerCase)
       IN Filter(j.candidates,
                 LAMBDA c : \E n \in 1..Len(need) :
                              includes(Map(tagsOf(c), toLowerCase), need[n]))
  ELSE j.candidates

\* The candidates of the board with an empty query: the tag filter, if set.
filtered(j) ==
  IF Len(filters.tags) > 0
  THEN LET need == Map(filters.tags, toLowerCase)
       IN Filter(j.candidates,
                 LAMBDA c : \A n \in 1..Len(need) :
                              includes(Map(tagsOf(c), toLowerCase), need[n]))
  ELSE j.candidates

\* A grouping that leaves out the candidates whose stored stage is no Stage value.
byStageOfStages(list) ==
  [ s \in StageSet |-> Filter(list, LAMBDA c : c.stage = s) ]

byStage(list) ==
  [ s \in StageSet |->
      Map(Filter(list, LAMBDA c : normalizeStage(c.stage) = s),
          LAMBDA c : [ c EXCEPT !.stage = normalizeStage(c.stage) ]) ]

stageCounts(list) == [ i \in 1..Len(STAGES) |-> Len(byStage(list)[STAGES[i]]) ]

\* useState wipLimits: never set after mount.
wipLimits ==
  [ s \in StageSet |->
      CASE s = "Sourced" -> 20
        [] s = "Interview: First Round" -> 15
        [] s = "Interview: Second Round" -> 12
        [] s = "Interview: Final round" -> 10
        [] OTHER -> 999 ]

\* The "WIP!" flag of a column of the board.
wipExceeded(stage) ==
  job # << >> /\ Len(byStage(filtered(job[1]))[stage]) > wipLimits[stage]

\* --------------------------------------------------------- store updaters
\* The functional updates handed to setState, as functions of the state s
\* they are applied to.

\* createJob: setState((s) => ({...s, jobs: [newJob, ...s.jobs], selectedJobId: newJob.id}))
applyJobCreated(s, newJob) ==
  [ jobs |-> << newJob >> \o s.jobs, selectedJobId |-> newJob.id ]

\* updateJob rebuilding the job from the form, which holds no candidates.
applyJobUpdatedFromForm(s, id, patch) ==
  [ s EXCEPT !.jobs = Map(s.jobs, LAMBDA j :
      IF j.id = id THEN [ Spread(j, patch) EXCEPT !.candidates = << >> ] ELSE j) ]

\* updateJob: jobs.map(j => j.id === id ? {...j, ...patch} : j)
applyJobUpdated(s, id, patch) ==
  [ s EXCEPT !.jobs = Map(s.jobs, LAMBDA j : IF j.id = id THEN Spread(j, patch) ELSE j) ]

\* deleteJob that spreads the old state and so keeps the old selection.
applyJobDeletedKeepingSelection(s, id) ==
  [ s EXCEPT !.jobs = Filter(s.jobs, LAMBDA j : j.id # id) ]

\* deleteJob with the filter's test inverted.
applyJobDeletedInverted(s, id) ==
  LET jobs == Filter(s.jobs, LAMBDA j : j.id = id) IN
    [ jobs |-> jobs, selectedJobId |-> FirstId(jobs) ]

\* deleteJob: jobs.filter(j => j.id !== id); selectedJobId: jobs[0]?.id || null
applyJobDeleted(s, id) ==
  LET jobs == Filter(s.jobs, LAMBDA j : j.id # id) IN
    [ jobs |-> jobs, selectedJobId |-> FirstId(jobs) ]

\* createCandidate: candidates: [...j.candidates, cand] in the job jobId
applyCandidateCreated(s, jobId, cand) ==
  [ s EXCEPT !.jobs = Map(s.jobs, LAMBDA j :
      IF j.id = jobId THEN [ j EXCEPT !.candidates = Append(j.candidates, cand) ] ELSE j) ]

\* updateCandidate: candidates.map(c => c.id === candId ? {...c, ...patch} : c)
applyCandidateUpdated(s, jobId, candId, patch) ==
  [ s EXCEPT !.jobs = Map(s.jobs, LAMBDA j :
      IF j.id = jobId
      THEN [ j EXCEPT !.candidates =
               Map(j.candidates, LAMBDA c : IF c.id = candId THEN Spread(c, patch) ELSE c) ]
      ELSE j) ]

\* deleteCandidate: candidates.filter(c => c.id !== candId)
applyCandidateDeleted(s, jobId, candId) ==
  [ s EXCEPT !.jobs = Map(s.jobs, LAMBDA j :
      IF j.id = jobId
      THEN [ j EXCEPT !.candidates = Filter(j.candidates, LAMBDA c : c.id # candId) ]
      ELSE j) ]

\* ------------------------------------------------------------ remote calls
\* A call awaited by a handler: the helper's arguments, the point the call
\* has reached, and what the server answered.
Call(op, phase, jobId, candId, arg, file, via) ==
  [ op |-> op, phase |-> phase, jobId |-> jobId, candId |-> candId, arg |-> arg,
    file |-> file, via |-> via, rows |-> << >>, res |-> << >> ]

NoArg == [ none |-> TRUE ]

\* The helper takes its Supabase branch.
Remote == persistMode = "supabase" /\ supaReady

\* The calls in flight with one more, one less, or one moved on.
Issue(c) == inflight (+) SetToBag({ c })
Settle(c) == inflight (-) SetToBag({ c })
Advance(c, d) == (inflight (-) SetToBag({ c })) (+) SetToBag({ d })

\* A persist effect keyed on the jobs of the store alone.
PersistEffectOnJobs ==
  storage' = IF /\ Renders(state')
                /\ persistMode' = "local" /\ state'.jobs # state.jobs
             THEN JSONstringify(state')
             ELSE storage

\* Persist local state when using local mode: the effect on [state, persistMode].
PersistEffect ==
  storage' = IF /\ Renders(state')
                /\ persistMode' = "local" /\ (state' # state \/ persistMode' # persistMode)
             THEN JSONstringify(state')
             ELSE storage

\* One more user event.
UserEvent == ops > 0 /\ ops' = ops - 1

\* ---------------------------------------------------------------- messages
Msg(text) == << text >>
MovedTo(stage) == << "Moved to", stage >>

FailureTexts ==
  { "Load jobs failed", "Load candidates failed", "Create job failed", "Update failed",
    "Delete failed", "Add candidate failed", "Update candidate failed",
    "Delete candidate failed" }

\* ------------------------------------------------------------- user events
\* Navbar "Switch": setPersistMode(m => m === 'local' ? 'supabase' : 'local'),
\* followed by the persist effect and the load effect, both keyed on persistMode.
setPersistMode ==
  /\ UserEvent
  /\ supaReady
  /\ persistMode' = IF persistMode = "local" THEN "supabase" ELSE "local"
  /\ inflight' = IF persistMode' = "supabase"
                 THEN Issue(Call("loadAll", "sent", NullId, NullId, NoArg, Null, "effect"))
                 ELSE inflight
  /\ shown' = << >>
  /\ UNCHANGED << state, supaReady, filters, remote, nextId >>
  /\ PersistEffect

\* Filters panel, "Tags (comma separated)": tags is the text split at commas,
\* trimmed, without the empty pieces. "Clear" is setFilters({ tags: [] }).
setFilters(tags) ==
  /\ UserEvent
  /\ filters' = [ filters EXCEPT !.tags = tags ]
  /\ shown' = << >>
  /\ UNCHANGED << state, persistMode, supaReady, remote, inflight, nextId >>
  /\ PersistEffect

\* Job selector: setState(s => ({...s, selectedJobId: e.target.value}))
selectJob(id) ==
  /\ UserEvent
  /\ id \in Ids(state.jobs)
  /\ state' = [ state EXCEPT !.selectedJobId = id ]
  /\ shown' = << >>
  /\ UNCHANGED << persistMode, supaReady, filters, remote, inflight, nextId >>
  /\ PersistEffect

createJob(data, jdFile) ==
  /\ UserEvent
  /\ IF Remote
     THEN /\ inflight' = Issue(
                 Call("createJob", IF jdFile # Null THEN "upload" ELSE "sent",
                      NullId, NullId, data, jdFile, "form"))
          /\ shown' = << >>
          /\ UNCHANGED << state, nextId >>
     ELSE /\ state' = applyJobCreated(state,
                 [ id |-> nextId,
                   title |-> IF data.title = "" THEN "Untitled Role" ELSE data.title,
                   jd |-> Null, candidates |-> << >> ])
          /\ nextId' = nextId + 1
          /\ shown' = << Msg("Job created") >>
          /\ UNCHANGED inflight
  /\ UNCHANGED << persistMode, supaReady, filters, remote >>
  /\ PersistEffect

updateJob(id, patch) ==
  /\ UserEvent
  /\ IF Remote
     THEN /\ inflight' = Issue(Call("updateJob", "sent", id, NullId, patch, Null, "form"))
          /\ shown' = << >>
          /\ UNCHANGED state
     ELSE /\ state' = applyJobUpdated(state, id, patch)
          /\ shown' = << Msg("Job updated") >>
          /\ UNCHANGED inflight
  /\ UNCHANGED << persistMode, supaReady, filters, remote, nextId >>
  /\ PersistEffect

deleteJob(id) ==
  /\ UserEvent
  /\ IF Remote
     THEN /\ inflight' = Issue(Call("deleteJob", "sent", id, NullId, NoArg, Null, "button"))
          /\ shown' = << >>
          /\ UNCHANGED state
     ELSE /\ state' = applyJobDeleted(state, id)
          /\ shown' = << Msg("Job deleted") >>
          /\ UNCHANGED inflight
  /\ UNCHANGED << persistMode, supaReady, filters, remote, nextId >>
  /\ PersistEffect

\* No caller in App.tsx passes resumeFile; the helper accepts it.
createCandidate(jobId, data, resumeFile) ==
  /\ UserEvent
  /\ IF Remote
     THEN /\ inflight' = Issue(
                 Call("createCandidate", IF resumeFile # Null THEN "upload" ELSE "sent",
                      jobId, NullId, data, resumeFile, "form"))
          /\ shown' = << >>
          /\ UNCHANGED << state, nextId >>
     ELSE /\ state' = applyCandidateCreated(state, jobId,
                 [ id |-> nextId,
                   stage |-> IF data.stage = Null THEN "Sourced" ELSE data.stage,
                   score |-> data.score,
                   resume |-> Null ])
          /\ nextId' = nextId + 1
          /\ shown' = << Msg("Candidate added") >>
          /\ UNCHANGED inflight
  /\ UNCHANGED << persistMode, supaReady, filters, remote >>
  /\ PersistEffect

\* updateCandidate with an optimistic echo: the store is patched when the call is sent.
updateCandidateOptimistic(jobId, candId, patch, via) ==
  /\ state' = applyCandidateUpdated(state, jobId, candId, patch)
  /\ inflight' = IF Remote
                 THEN Issue(Call("updateCandidate", "sent", jobId, candId, patch, Null, via))
                 ELSE inflight

\* The helper as its callers see it: what it does to the store and to the
\* calls in flight before it first yields.
updateCandidate(jobId, candId, patch, via) ==
  IF Remote
  THEN /\ inflight' = Issue(Call("updateCandidate", "sent", jobId, candId, patch, Null, via))
       /\ UNCHANGED state
  ELSE /\ state' = applyCandidateUpdated(state, jobId, candId, patch)
       /\ UNCHANGED inflight

\* Candidate modal onSubmit for an existing candidate:
\* await updateCandidate(job.id, editingCandidate.id, vals); show("Candidate updated")
CandidateFormSubmit(jobId, candId, vals) ==
  /\ UserEvent
  /\ updateCandidate(jobId, candId, vals, "form")
  /\ shown' = IF Remote THEN << >> ELSE << Msg("Candidate updated") >>
  /\ UNCHANGED << persistMode, supaReady, filters, remote, nextId >>
  /\ PersistEffect

\* No caller in App.tsx; the helper of the CRUD surface.
deleteCandidate(jobId, candId) ==
  /\ UserEvent
  /\ IF Remote
     THEN /\ inflight' = Issue(
                 Call("deleteCandidate", "sent", jobId, candId, NoArg, Null, "button"))
          /\ shown' = << >>
          /\ UNCHANGED state
     ELSE /\ state' = applyCandidateDeleted(state, jobId, candId)
          /\ shown' = << Msg("Candidate deleted") >>
          /\ UNCHANGED inflight
  /\ UNCHANGED << persistMode, supaReady, filters, remote, nextId >>
  /\ PersistEffect

\* The stage a drop resolves to, or Null: over is [stage, id], a column's id
\* or a card's id.
targetStageOf(j, over) ==
  IF isStage(over.stage) THEN over.stage
  ELSE LET hit == Filter(j.candidates, LAMBDA x : x.id = over.id) IN
         IF Len(hit) > 0 /\ isStage(hit[1].stage) THEN hit[1].stage ELSE Null

\* onDragEnd refusing a drop on a column that is at its WIP limit.
onDragEndWithinLimits(activeId, over) ==
  /\ UserEvent
  /\ job # << >>
  /\ LET j == job[1]
         targetStage == targetStageOf(j, over)
         found == Filter(j.candidates, LAMBDA x : x.id = activeId)
     IN IF /\ targetStage # Null /\ Len(found) > 0 /\ found[1].stage # targetStage
           /\ Len(byStage(filtered(j))[targetStage]) < wipLimits[targetStage]
        THEN /\ updateCandidate(j.id, activeId, [ stage |-> targetStage ], "drag")
             /\ shown' = << MovedTo(targetStage) >>
        ELSE /\ shown' = << >>
             /\ UNCHANGED << state, inflight >>
  /\ UNCHANGED << persistMode, supaReady, filters, remote, nextId >>
  /\ PersistEffect

\* onDragEnd reporting a drop it cannot resolve.
onDragEndReporting(activeId, over) ==
  /\ UserEvent
  /\ job # << >>
  /\ LET j == job[1]
         targetStage == targetStageOf(j, over)
         found == Filter(j.candidates, LAMBDA x : x.id = activeId)
     IN IF targetStage # Null /\ Len(found) > 0 /\ found[1].stage # targetStage
        THEN /\ updateCandidate(j.id, activeId, [ stage |-> targetStage ], "drag")
             /\ shown' = << MovedTo(targetStage) >>
        ELSE /\ shown' = IF targetStage = Null \/ Len(found) = 0
                         THEN << Msg("Update candidate failed") >> ELSE << >>
             /\ UNCHANGED << state, inflight >>
  /\ UNCHANGED << persistMode, supaReady, filters, remote, nextId >>
  /\ PersistEffect

onDragEnd(activeId, over) ==
  /\ UserEvent
  /\ job # << >>
  /\ LET j == job[1]
         targetStage == targetStageOf(j, over)
         found == Filter(j.candidates, LAMBDA x : x.id = activeId)
     IN IF targetStage # Null /\ Len(found) > 0 /\ found[1].stage # targetStage
        THEN /\ updateCandidate(j.id, activeId, [ stage |-> targetStage ], "drag")
             /\ shown' = << MovedTo(targetStage) >>
        ELSE /\ shown' = << >>
             /\ UNCHANGED << state, inflight >>
  /\ UNCHANGED << persistMode, supaReady, filters, remote, nextId >>
  /\ PersistEffect

\* Import JSON (offered in local mode only): setState(JSON.parse(text))
uploadJSON(file) ==
  /\ UserEvent
  /\ persistMode = "local"
  /\ IF file.kind = "json"
     THEN state' = JSONparse(file) /\ shown' = << Msg("State imported") >>
     ELSE state' = state /\ shown' = << Msg("Import failed: invalid JSON") >>
  /\ UNCHANGED << persistMode, supaReady, filters, remote, inflight, nextId >>
  /\ PersistEffect

\* ------------------------------------------------------------ the server
\* What the helpers send: undefined fields are dropped from the request body.
jobInsertPayload(c) ==
  [ title |-> IF c.arg.title = "" THEN "Untitled Role" ELSE c.arg.title, jd |-> c.file ]

jobUpdatePayload(patch) ==
  [ f \in { g \in DOMAIN patch : g # "jd" \/ patch[g] # Null } |-> patch[f] ]

candidateInsertPayload(c) ==
  [ job_id |-> c.jobId,
    stage |-> IF c.arg.stage = Null THEN "Sourced" ELSE c.arg.stage,
    score |-> c.arg.score,
    resume |-> c.file ]

\* score: patch.score ?? null is always part of the payload.
candidateUpdatePayload(patch) ==
  [ f \in ({ "stage" } \cap DOMAIN patch) \cup { "score" }
          \cup { g \in { "resume" } \cap DOMAIN patch : patch[g] # Null }
    |-> IF f = "score"
        THEN (IF "score" \in DOMAIN patch THEN patch.score ELSE NoScore)
        ELSE patch[f] ]

\* The call waits for an answer of the tables.  After the jobs select of the load
\* effect has answered ("jobsOk") the effect only goes on to the candidates
\* select, so the call then waits for that second answer.
Awaiting(c) == c.phase \in { "sent", "jobsOk" }

\* The tables after the write of call c.
ServedRemote(c) ==
  CASE c.op = "createJob" ->
         [ remote EXCEPT !.jobs = << [ id |-> nextId ] @@ jobInsertPayload(c) >> \o @ ]
    [] c.op = "updateJob" ->
         [ remote EXCEPT !.jobs = Map(@, LAMBDA r :
             IF r.id = c.jobId THEN Spread(r, jobUpdatePayload(c.arg)) ELSE r) ]
    [] c.op = "deleteJob" ->
         [ jobs |-> Filter(remote.jobs, LAMBDA r : r.id # c.jobId),
           cands |-> Filter(remote.cands, LAMBDA r : r.job_id # c.jobId) ]
    [] c.op = "createCandidate" ->
         [ remote EXCEPT !.cands = Append(@, [ id |-> nextId ] @@ candidateInsertPayload(c)) ]
    [] c.op = "updateCandidate" ->
         [ remote EXCEPT !.cands = Map(@, LAMBDA r :
             IF r.id = c.candId THEN Spread(r, candidateUpdatePayload(c.arg)) ELSE r) ]
    [] c.op = "deleteCandidate" ->
         [ remote EXCEPT !.cands = Filter(@, LAMBDA r : r.id # c.candId) ]
    [] OTHER -> remote

\* The call c is served: a select of the load, or the write.
ServerOk(c) ==
  /\ BagIn(c, inflight)
  /\ Awaiting(c)
  \* candidates.job_id references jobs(id)
  /\ (c.op = "createCandidate" /\ c.phase = "sent") => c.jobId \in Ids(remote.jobs)
  /\ IF c.op = "loadAll"
     THEN /\ inflight' = Advance(c,
                 IF c.phase = "sent"
                 THEN [ c EXCEPT !.phase = "jobsOk", !.rows = remote.jobs ]
                 ELSE [ c EXCEPT !.phase = "ok", !.res = remote.cands ])
          /\ UNCHANGED << remote, nextId >>
     ELSE /\ remote' = ServedRemote(c)
          /\ nextId' = IF c.op \in { "createJob", "createCandidate" } THEN nextId + 1 ELSE nextId
          /\ inflight' = Advance(c,
                 [ c EXCEPT !.phase = "ok",
                            !.res = CASE c.op = "createJob" -> << remote'.jobs[1] >>
                                      [] c.op = "createCandidate" ->
                                           << remote'.cands[Len(remote'.cands)] >>
                                      [] OTHER -> << >> ])
  /\ shown' = << >>
  /\ UNCHANGED << state, persistMode, supaReady, filters, storage, ops >>

\* ------------------------------------------------- handlers resumed after await
\* Frame of every resumption: the mode, the tables and the ids are not touched,
\* and the persist effect runs if the state was replaced.
Resumed ==
  /\ UNCHANGED << persistMode, supaReady, filters, remote, nextId, ops >>
  /\ PersistEffect

\* A call comes back confirmed ("ok") or refused.  A refusal (a transport or
\* storage error, a violated constraint) leaves the tables as they are, so it is
\* taken in the step in which the handler resumes with the error.
Refused(c) == c.phase # "ok"

\* await uploadToStorage(...) returned: the insert is sent with the FileRef.
uploadResolved(c) ==
  /\ BagIn(c, inflight)
  /\ c.phase = "upload"
  /\ inflight' = Advance(c, [ c EXCEPT !.phase = "sent" ])
  /\ shown' = << >>
  /\ UNCHANGED state
  /\ Resumed

\* await uploadToStorage(...) threw: createJob / createCandidate have no catch,
\* the helper's promise rejects and nothing after the await runs.
uploadRejected(c) ==
  /\ BagIn(c, inflight)
  /\ c.phase = "upload"
  /\ inflight' = Settle(c)
  /\ shown' = << >>
  /\ UNCHANGED state
  /\ Resumed

\* Load effect, the jobs select failed: show(`Load jobs failed: ...`); return.
loadJobsFailed(c) ==
  /\ BagIn(c, inflight)
  /\ c.op = "loadAll"
  /\ c.phase = "sent"
  /\ inflight' = Settle(c)
  /\ shown' = << Msg("Load jobs failed") >>
  /\ UNCHANGED state
  /\ Resumed

\* The load effect merging the rows into what is shown instead of replacing it.
loadAllMerged(c) ==
  /\ BagIn(c, inflight)
  /\ c.op = "loadAll"
  /\ c.phase \in { "ok", "jobsOk" }
  /\ inflight' = Settle(c)
  /\ IF Refused(c)
     THEN state' = state /\ shown' = << Msg("Load candidates failed") >>
     ELSE /\ state' = LET next == mapRowsToState(c.rows, c.res) IN
                        [ next EXCEPT !.jobs =
                            @ \o Filter(state.jobs, LAMBDA j : j.id \notin Ids(c.rows)) ]
          /\ shown' = << >>
  /\ Resumed

\* Load effect, after the candidates select: setState(mapRowsToState(jobsRows, candsRows)).
loadAllResolved(c) ==
  /\ BagIn(c, inflight)
  /\ c.op = "loadAll"
  /\ c.phase \in { "ok", "jobsOk" }
  /\ inflight' = Settle(c)
  /\ IF Refused(c)
     THEN state' = state /\ shown' = << Msg("Load candidates failed") >>
     ELSE /\ state' = mapRowsToState(c.rows, c.res)
          /\ shown' = << >>
  /\ Resumed

\* A write helper's call has come back.
Back(c, op) ==
  /\ BagIn(c, inflight)
  /\ c.op = op
  /\ c.phase \in { "ok", "sent" }
  /\ inflight' = Settle(c)

createJobResolved(c) ==
  /\ Back(c, "createJob")
  /\ IF Refused(c)
     THEN state' = state /\ shown' = << Msg("Create job failed") >>
     ELSE LET row == c.res[1] IN
          /\ state' = applyJobCreated(state,
                 [ id |-> row.id, title |-> row.title, jd |-> row.jd, candidates |-> << >> ])
          /\ shown' = << Msg("Job created") >>
  /\ Resumed

updateJobResolved(c) ==
  /\ Back(c, "updateJob")
  /\ IF Refused(c)
     THEN state' = state /\ shown' = << Msg("Update failed") >>
     ELSE /\ state' = applyJobUpdated(state, c.jobId, c.arg)
          /\ shown' = << Msg("Job updated") >>
  /\ Resumed

deleteJobResolved(c) ==
  /\ Back(c, "deleteJob")
  /\ IF Refused(c)
     THEN state' = state /\ shown' = << Msg("Delete failed") >>
     ELSE /\ state' = applyJobDeleted(state, c.jobId)
          /\ shown' = << Msg("Job deleted") >>
  /\ Resumed

createCandidateResolved(c) ==
  /\ Back(c, "createCandidate")
  /\ c.via # "intake"
  /\ IF Refused(c)
     THEN state' = state /\ shown' = << Msg("Add candidate failed") >>
     ELSE LET row == c.res[1] IN
          /\ state' = applyCandidateCreated(state, c.jobId,
                 [ id |-> row.id, stage |-> row.stage, score |-> row.score, resume |-> row.resume ])
          /\ shown' = << Msg("Candidate added") >>
  /\ Resumed

\* The modal's onSubmit goes on after the helper's promise settles, either way.
AfterUpdateCandidate(c) ==
  IF c.via = "form" THEN << Msg("Candidate updated") >> ELSE << >>

updateCandidateResolved(c) ==
  /\ Back(c, "updateCandidate")
  /\ IF Refused(c)
     THEN /\ state' = state
          /\ shown' = << Msg("Update candidate failed") >> \o AfterUpdateCandidate(c)
     ELSE /\ state' = applyCandidateUpdated(state, c.jobId, c.candId,
                                            c.arg)
          /\ shown' = AfterUpdateCandidate(c)
  /\ Resumed

deleteCandidateResolved(c) ==
  /\ Back(c, "deleteCandidate")
  /\ IF Refused(c)
     THEN state' = state /\ shown' = << Msg("Delete candidate failed") >>
     ELSE /\ state' = applyCandidateDeleted(state, c.jobId, c.candId)
          /\ shown' = << Msg("Candidate deleted") >>
  /\ Resumed

\* ------------------------------------------------------------ bulk intake
\* show(`${farr.length} resume(s) uploaded`)
Uploaded(n) == << "resumes uploaded", n >>

\* The candidate createCandidate builds locally from the intake's data: the
\* resume passed in data is not read, the helper writes resume: null.
intakeCandidate(id) ==
  [ id |-> id, stage |-> "Sourced", score |-> NoScore, resume |-> Null ]

\* Local mode: the loop of onResumeFiles over files, helper by helper.
RECURSIVE intakeLocal(_, _, _, _)
intakeLocal(s, jobId, files, id) ==
  IF files = << >> THEN s
  ELSE intakeLocal(applyCandidateCreated(s, jobId, intakeCandidate(id)),
                   jobId, Tail(files), id + 1)

\* The upload of file f awaited by the loop; the call keeps the loop's
\* variables: the files still to come and farr.length.
intakeUpload(jobId, f, rest, total) ==
  Call("onResumeFiles", "upload", jobId, NullId, [ rest |-> rest, total |-> total ], f, "intake")

\* Drop zone / file input: onResumeFiles(files) for a non-empty FileList.
onResumeFiles(files) ==
  /\ UserEvent
  /\ job # << >>
  /\ Len(files) > 0
  /\ IF Remote
     THEN /\ inflight' = Issue(intakeUpload(job[1].id, Head(files), Tail(files), Len(files)))
          /\ shown' = << >>
          /\ UNCHANGED << state, nextId >>
     ELSE /\ state' = intakeLocal(state, job[1].id, files, nextId)
          /\ nextId' = nextId + Len(files)
          /\ shown' = [ i \in 1..Len(files) |-> Msg("Candidate added") ]
                         \o << Uploaded(Len(files)) >>
          /\ UNCHANGED inflight
  /\ UNCHANGED << persistMode, supaReady, filters, remote >>
  /\ PersistEffect

\* The loop after the file of call c: the next file's upload, or the end.
intakeGoesOn(c) ==
  IF c.arg.rest # << >>
  THEN Advance(c, intakeUpload(c.jobId, Head(c.arg.rest), Tail(c.arg.rest), c.arg.total))
  ELSE Settle(c)

intakeEnds(c) == IF c.arg.rest # << >> THEN << >> ELSE << Uploaded(c.arg.total) >>

\* await uploadToStorage(sb, 'resumes', f) returned ref: the loop calls
\* createCandidate(job.id, { name, resume: ref, stage: "Sourced" }) with no
\* resumeFile, which sends the insert.
intakeUploadResolved(c) ==
  /\ BagIn(c, inflight)
  /\ c.op = "onResumeFiles" /\ c.phase = "upload"
  /\ inflight' = Advance(c,
         Call("createCandidate", "sent", c.jobId, NullId,
              [ stage |-> "Sourced", score |-> NoScore, resume |-> c.file,
                rest |-> c.arg.rest, total |-> c.arg.total ],
              Null, "intake"))
  /\ shown' = << >>
  /\ UNCHANGED state
  /\ Resumed

\* An intake loop that stops at the first upload that fails.
intakeUploadRejectedAborting(c) ==
  /\ BagIn(c, inflight)
  /\ c.op = "onResumeFiles" /\ c.phase = "upload"
  /\ inflight' = Settle(c)
  /\ shown' = << Msg("Upload failed") >>
  /\ UNCHANGED state
  /\ Resumed

\* await uploadToStorage(...) threw: catch { show(`Upload failed: ...`) }, then
\* the next file, or the closing message.
intakeUploadRejected(c) ==
  /\ BagIn(c, inflight)
  /\ c.op = "onResumeFiles" /\ c.phase = "upload"
  /\ inflight' = intakeGoesOn(c)
  /\ shown' = << Msg("Upload failed") >> \o intakeEnds(c)
  /\ UNCHANGED state
  /\ Resumed

\* The insert of the loop's createCandidate came back: the helper shows its
\* failure and returns, or adds the row; the loop goes on either way.
intakeCandidateResolved(c) ==
  /\ BagIn(c, inflight)
  /\ c.op = "createCandidate" /\ c.via = "intake"
  /\ c.phase \in { "ok", "sent" }
  /\ inflight' = intakeGoesOn(c)
  /\ IF Refused(c)
     THEN state' = state /\ shown' = << Msg("Add candidate failed") >> \o intakeEnds(c)
     ELSE LET row == c.res[1] IN
          /\ state' = applyCandidateCreated(state, c.jobId,
                 [ id |-> row.id, stage |-> row.stage, score |-> row.score, resume |-> row.resume ])
          /\ shown' = << Msg("Candidate added") >> \o intakeEnds(c)
  /\ Resumed

\* ------------------------------------------------------------ initial state
\* localStorage as the program may find it at start.
InitialStorage == { NoItem }

\* The tables as the program may find them: empty, or holding two jobs with one
\* candidate each, whose stage was written by another client.
EmptyDB == [ jobs |-> << >>, cands |-> << >> ]

DemoDB ==
  [ jobs |-> << [ id |-> 101, title |-> "Backend Engineer", jd |-> Null ],
                [ id |-> 102, title |-> "Designer", jd |-> Null ] >>,
    cands |-> << [ id |-> 103, job_id |-> 101, stage |-> "Unknown", score |-> 82, resume |-> Null ],
                 [ id |-> 104, job_id |-> 102, stage |-> "applied", score |-> NoScore, resume |-> Null ] >> ]

InitialRemote == { DemoDB }

\* Files offered to Import JSON.
ImportFiles ==
  { JSONstringify([ jobs |-> << >>, selectedJobId |-> NullId ]),
    JSONstringify([ jobs |-> << [ id |-> 201, title |-> "Analyst", jd |-> Null,
                                  candidates |-> << [ id |-> 202, stage |-> "Unknown",
                                                      score |-> NoScore, resume |-> Null ] >> ] >>,
                    selectedJobId |-> NullId ]) }

\* The mount with n user events to come, localStorage holding one of snapshots
\* and the Supabase client configured or not as ready tells.
InitFrom(n, snapshots, ready) ==
  /\ supaReady \in ready
  /\ persistMode = IF supaReady THEN "supabase" ELSE "local"
  /\ \E raw \in snapshots :
       /\ state = InitialState(raw)
       /\ storage = IF persistMode = "local" /\ Renders(state)
                    THEN JSONstringify(state) ELSE raw
  /\ remote \in IF supaReady THEN InitialRemote ELSE { EmptyDB }
  /\ inflight = IF supaReady
                THEN SetToBag({ Call("loadAll", "sent", NullId, NullId, NoArg, Null, "effect") })
                ELSE EmptyBag
  /\ filters = [ tags |-> << >> ]
  /\ nextId = 5
  /\ ops = n
  /\ shown = << >>

InitWith(n) == InitFrom(n, InitialStorage, BOOLEAN)

Init == InitWith(MaxOps)

\* ------------------------------------------------------------- next state
JobInputs == { [ title |-> t ] : t \in TitleInputs }
\* What the Job modal submits: "Save & Close" submits the form, whose title is
\* required, with the chosen file; "Save" is a plain button that passes the
\* values as they are, an empty title included, and no file.
JobFormInputs ==
  { [ title |-> "QA Engineer", file |-> "cv.pdf" ], [ title |-> "", file |-> Null ] }
CandidateInputs == { [ stage |-> "Hired", score |-> NoScore ], [ stage |-> "Sourced", score |-> 90 ] }
DropTargets(j) ==
  { [ stage |-> s, id |-> NullId ] : s \in StageInputs }
    \cup { [ stage |-> Null, id |-> n ] : n \in Ids(j.candidates) \cup { NullId } }

Next ==
  \/ setPersistMode
  \/ \E id \in Ids(state.jobs) : selectJob(id)
  \/ \E vals \in JobFormInputs : createJob([ title |-> vals.title ], vals.file)
  \/ \E patch \in JobInputs : job # << >> /\ updateJob(job[1].id, patch)
  \/ job # << >> /\ deleteJob(job[1].id)
  \/ \E data \in CandidateInputs :
       job # << >> /\ createCandidate(job[1].id, data, Null)
  \/ \E vals \in CandidateInputs : \E n \in 1..Len(state.jobs) :
       \E id \in Ids(state.jobs[n].candidates) :
         job # << >> /\ job[1].id = state.jobs[n].id /\ CandidateFormSubmit(job[1].id, id, vals)
  \/ \E n \in 1..Len(state.jobs) : \E id \in Ids(state.jobs[n].candidates) :
       job # << >> /\ job[1].id = state.jobs[n].id /\ deleteCandidate(job[1].id, id)
  \/ \E n \in 1..Len(state.jobs) :
       \E id \in Ids(state.jobs[n].candidates) \cup { NullId } :
         \E over \in DropTargets(state.jobs[n]) :
           job # << >> /\ job[1].id = state.jobs[n].id /\ onDragEnd(id, over)
  \/ \E file \in ImportFiles : uploadJSON(file)
  \/ \E c \in BagToSet(inflight) : ServerOk(c)
  \/ \E c \in BagToSet(inflight) : uploadResolved(c)
  \/ \E c \in BagToSet(inflight) : uploadRejected(c)
  \/ \E c \in BagToSet(inflight) : loadJobsFailed(c)
  \/ \E c \in BagToSet(inflight) : loadAllResolved(c)
  \/ \E c \in BagToSet(inflight) : createJobResolved(c)
  \/ \E c \in BagToSet(inflight) : updateJobResolved(c)
  \/ \E c \in BagToSet(inflight) : deleteJobResolved(c)
  \/ \E c \in BagToSet(inflight) : createCandidateResolved(c)
  \/ \E c \in BagToSet(inflight) : updateCandidateResolved(c)
  \/ \E c \in BagToSet(inflight) : deleteCandidateResolved(c)

Spec == Init /\ [][Next]_vars

\* The behaviours of a user who only adds jobs and candidates and drags cards,
\* followed for one event more.
InitBoard == InitWith(MaxOps + 1)

NextBoard ==
  \/ \E vals \in JobFormInputs : createJob([ title |-> vals.title ], vals.file)
  \/ \E data \in CandidateInputs :
       job # << >> /\ createCandidate(job[1].id, data, Null)
  \/ \E n \in 1..Len(state.jobs) :
       \E id \in Ids(state.jobs[n].candidates) \cup { NullId } :
         \E over \in DropTargets(state.jobs[n]) :
           job # << >> /\ job[1].id = state.jobs[n].id /\ onDragEnd(id, over)
  \/ \E c \in BagToSet(inflight) : ServerOk(c)
  \/ \E c \in BagToSet(inflight) : uploadResolved(c)
  \/ \E c \in BagToSet(inflight) : uploadRejected(c)
  \/ \E c \in BagToSet(inflight) : loadJobsFailed(c)
  \/ \E c \in BagToSet(inflight) : loadAllResolved(c)
  \/ \E c \in BagToSet(inflight) : createJobResolved(c)
  \/ \E c \in BagToSet(inflight) : createCandidateResolved(c)
  \/ \E c \in BagToSet(inflight) : updateCandidateResolved(c)

SpecBoard == InitBoard /\ [][NextBoard]_vars

\* ------------------------------------------------------------- properties
\* The step ends or moves on the call c.
Consumed(c) == BagIn(c, inflight) /\ CopiesIn(c, inflight') < CopiesIn(c, inflight)

\* The step ends the handler that waited on the call c.
Ended(c) == Consumed(c) /\ BagCardinality(inflight') < BagCardinality(inflight)

AllCandidates(s) ==
  UNION { { s.jobs[n].candidates[m] : m \in 1..Len(s.jobs[n].candidates) } : n \in 1..Len(s.jobs) }

\* C1: in Remote mode, when the call of a CRUD helper fails (an error result or
\* a rejected upload), the step that ends the helper leaves {jobs, selectedJobId}
\* as it was and shows a failure notice.
C1_FailureAbortsAndNotifies ==
  [][ \A c \in BagToSet(inflight) :
        (c.op # "loadAll" /\ Refused(c) /\ Ended(c))
          => /\ state' = state
             /\ \E k \in 1..Len(shown') : shown'[k][1] \in FailureTexts ]_vars

\* C2: in Remote mode the jobs of the store change only in a step that resumes a
\* handler whose call the server has confirmed; sending a call changes nothing.
C2_NoOptimisticEcho ==
  [][ (Remote /\ state'.jobs # state.jobs)
        => \E c \in BagToSet(inflight) : c.phase = "ok" /\ Consumed(c) ]_vars

\* A confirmed updateCandidate whose patch the store does not show yet.
C2_Witness ==
  /\ Remote
  /\ \E c \in BagToSet(inflight) :
       /\ c.op = "updateCandidate" /\ c.phase = "ok"
       /\ \E x \in AllCandidates(state) : x.id = c.candId /\ x.stage # c.arg.stage

\* C3: once a confirmed updateCandidate, the only call in flight, has been applied
\* in Remote mode, the store's candidate has the field values its remote row
\* yields through mapRowsToState.
C3_ConfirmedUpdateMatchesRemote ==
  [][ \A c \in BagToSet(inflight) :
        (Remote /\ c.op = "updateCandidate" /\ c.phase = "ok"
           /\ inflight = SetToBag({ c }) /\ Consumed(c))
          => \A x \in AllCandidates(state') : \A k \in 1..Len(remote'.cands) :
               (x.id = c.candId /\ remote'.cands[k].id = c.candId)
                 => x = candidateOfRow(remote'.cands[k]) ]_vars

\* C4: a step that resumes a handler on a remote call while the active variant is
\* Local changes neither the store nor the Local snapshot.
C4_StaleCallDiscarded ==
  [][ (persistMode = "local" /\ \E c \in BagToSet(inflight) : Consumed(c))
        => (state' = state /\ storage' = storage) ]_vars

\* C5: a switch to Remote sends a loadAll, and the step that applies a completed
\* loadAll replaces the store by the state built from the rows it read: no job
\* or candidate absent from those rows stays.
C5_LoadReplacesWholesale ==
  [][ /\ (persistMode = "local" /\ persistMode' = "supabase")
           => \E c \in BagToSet(inflight') :
                /\ c.op = "loadAll" /\ c.phase = "sent"
                /\ CopiesIn(c, inflight') > CopiesIn(c, inflight)
      /\ \A c \in BagToSet(inflight) :
           (c.op = "loadAll" /\ c.phase = "ok" /\ Consumed(c))
             => /\ state' = mapRowsToState(c.rows, c.res)
                /\ Ids(state'.jobs) = Ids(c.rows)
                /\ { x.id : x \in AllCandidates(state') } \subseteq Ids(c.res) ]_vars

\* The seed job was shown in Local mode, then Remote was switched on and its load
\* has been applied: the store holds the remote jobs and the seed job is gone.
C5_Witness ==
  /\ persistMode = "supabase"
  /\ inflight = EmptyBag
  /\ storage.kind = "json" /\ 1 \in Ids(storage.doc.jobs)
  /\ state = mapRowsToState(remote.jobs, remote.cands)
  /\ Len(state.jobs) > 0 /\ 1 \notin Ids(state.jobs)

\* C6: if jobs is non-empty then selectedJobId is the id of a job in jobs, and if
\* jobs is empty then selectedJobId is null.
C6_SelectionInvariant ==
  IF Len(state.jobs) > 0
  THEN state.selectedJobId \in Ids(state.jobs)
  ELSE state.selectedJobId = NullId

\* C7: a step that applies deleteJob to the selected job leaves selectedJobId at
\* the id of the first job remaining in list order, or null if none remains.
C7_ReselectFirstRemaining ==
  [][ (shown' = << Msg("Job deleted") >>
         /\ state.selectedJobId \in Ids(state.jobs) \ Ids(state'.jobs))
        => LET rest == Filter(state.jobs, LAMBDA j : j.id # state.selectedJobId) IN
             state'.selectedJobId = IF Len(rest) > 0 THEN rest[1].id ELSE NullId ]_vars

\* The second remote job was selected, then deleted: the first one is selected.
C7_Witness ==
  /\ shown = << Msg("Job deleted") >>
  /\ Ids(state.jobs) = { 101 } /\ 102 \notin Ids(remote.jobs)
  /\ state.selectedJobId = 101

\* The store after deleteJob(d): no job d, none of its candidates, the rest as before.
DeletedExactly(d) ==
  /\ d \notin Ids(state'.jobs)
  /\ state'.jobs = Filter(state.jobs, LAMBDA j : j.id # d)
  /\ \A n \in 1..Len(state.jobs) :
       state.jobs[n].id = d
         => Ids(state.jobs[n].candidates) \cap { x.id : x \in AllCandidates(state') } = { }

\* C8: a step that applies deleteJob(id), in Local mode at once and in Remote mode
\* when the confirmed call resumes, removes that job and its candidates and leaves
\* every other job and its candidate list unchanged.
C8_CascadeDelete ==
  [][ /\ (~Remote /\ job # << >> /\ shown' = << Msg("Job deleted") >> /\ inflight' = inflight)
           => DeletedExactly(job[1].id)
      /\ \A c \in BagToSet(inflight) :
           (c.op = "deleteJob" /\ c.phase = "ok" /\ Consumed(c)) => DeletedExactly(c.jobId) ]_vars

\* The newer remote job and its candidate are gone, the older job is intact.
C8_Witness ==
  /\ shown = << Msg("Job deleted") >>
  /\ state.jobs = << [ id |-> 102, title |-> "Designer", jd |-> Null,
                       candidates |-> << [ id |-> 104, stage |-> "applied", score |-> NoScore,
                                           resume |-> Null ] >> ] >>

\* C9: a drop of a candidate onto the column of its current normalized stage sends
\* no call, changes no state and shows no confirmation.
C9_IdempotentTransition ==
  [][ \A x \in AllCandidates(state) : \A t \in StageSet :
        (normalizeStage(x.stage) = t /\ onDragEnd(x.id, [ stage |-> t, id |-> NullId ]))
          => (state' = state /\ inflight' = inflight /\ shown' = << >>) ]_vars

\* The store after the transition of candidate cid of job jid to stage t.
TransitionFrame(jid, cid, t) ==
  /\ state'.selectedJobId = state.selectedJobId
  /\ Len(state'.jobs) = Len(state.jobs)
  /\ \A n \in 1..Len(state.jobs) :
       LET old == state.jobs[n]
           new == state'.jobs[n]
       IN /\ new.id = old.id /\ new.title = old.title /\ new.jd = old.jd
          /\ Len(new.candidates) = Len(old.candidates)
          /\ \A m \in 1..Len(old.candidates) :
               IF old.id = jid /\ old.candidates[m].id = cid
               THEN /\ new.candidates[m] = [ old.candidates[m] EXCEPT !.stage = t ]
                    /\ LET from == normalizeStage(old.candidates[m].stage)
                           before == byStage(filtered(old))
                           after == byStage(filtered(new))
                       IN from # t =>
                            \A s \in StageSet :
                              Len(after[s]) = Len(before[s])
                                + (IF s = t THEN 1 ELSE 0) - (IF s = from THEN 1 ELSE 0)
               ELSE new.candidates[m] = old.candidates[m]

\* C10: a transition of candidate c of job j to stage t, applied in Local mode by
\* the drop and in Remote mode when the confirmed call resumes, sets c.stage to t
\* and changes nothing else: no other field, candidate, order or selection; the
\* source column's count drops by one and the target's rises by one.
C10_TransitionFrame ==
  [][ /\ \A x \in AllCandidates(state) : \A over \in UNION { DropTargets(state.jobs[n]) : n \in 1..Len(state.jobs) } :
           (~Remote /\ job # << >> /\ onDragEnd(x.id, over) /\ state' # state)
             => TransitionFrame(job[1].id, x.id, targetStageOf(job[1], over))
      /\ \A c \in BagToSet(inflight) :
           (c.op = "updateCandidate" /\ c.via = "drag" /\ c.phase = "ok" /\ Consumed(c))
             => TransitionFrame(c.jobId, c.candId, c.arg.stage) ]_vars

\* A board whose Interview: Final round column is exactly at its WIP limit, with
\* one more candidate in Sourced, as localStorage may hold it.
FullBoard ==
  JSONstringify(
    [ jobs |-> << [ id |-> 1, title |-> "Frontend Engineer", jd |-> Null,
                    candidates |->
                      [ i \in 1..(wipLimits["Interview: Final round"] + 1) |->
                          [ id |-> 10 + i,
                            stage |-> IF i <= wipLimits["Interview: Final round"]
                                      THEN "Interview: Final round" ELSE "Sourced",
                            score |-> NoScore, resume |-> Null ] ] ] >>,
      selectedJobId |-> 1 ])

\* Every column of the board as a drop target.
Columns == { [ stage |-> s, id |-> NullId ] : s \in StageSet }

InitWip == InitFrom(MaxOps, { FullBoard }, { FALSE })

\* The cards the user takes: two of the full column and the one in Sourced.
DraggedCards == { 11, 12, 10 + wipLimits["Interview: Final round"] + 1 }

NextWip ==
  \E id \in DraggedCards : \E over \in Columns : onDragEnd(id, over)

\* Local mode, the board full at one column, the user only drags cards.
SpecWip == InitWip /\ [][NextWip]_vars

\* C11: in Local mode a drop of a card the user takes onto the column of any
\* stage t other than the one it is displayed in is applied, whatever the counts
\* and the WIP limits: the candidate ends in t and the move is confirmed, also
\* when t is then over its limit, which only raises the column's flag.
C11_TransitionsNeverBlocked ==
  [][ \A x \in { y \in AllCandidates(state) : y.id \in DraggedCards } : \A t \in StageSet :
        (~Remote /\ normalizeStage(x.stage) # t
           /\ onDragEnd(x.id, [ stage |-> t, id |-> NullId ]))
          => /\ \E y \in AllCandidates(state') : y.id = x.id /\ y.stage = t
             /\ \A y \in AllCandidates(state') : y.id = x.id => y.stage = t
             /\ shown' = << MovedTo(t) >>
             /\ wipExceeded(t)' <=> Len(byStage(filtered(job[1]))[t]) + 1 > wipLimits[t] ]_vars

\* The candidate from Sourced was dropped on the full column: it is there, the
\* column holds one more than its limit and is flagged.
C11_Witness ==
  /\ shown = << MovedTo("Interview: Final round") >>
  /\ wipExceeded("Interview: Final round")
  /\ \A x \in AllCandidates(state) : x.stage = "Interview: Final round"
  /\ Cardinality(AllCandidates(state)) = wipLimits["Interview: Final round"] + 1

\* Either mode; the user selects a job, drags cards and imports files, which
\* with the mount's load is every way a stage written elsewhere reaches the board.
NextStages ==
  \/ \E id \in Ids(state.jobs) : selectJob(id)
  \/ \E n \in 1..Len(state.jobs) :
       \E id \in Ids(state.jobs[n].candidates) : \E over \in DropTargets(state.jobs[n]) :
         job # << >> /\ job[1].id = state.jobs[n].id /\ onDragEnd(id, over)
  \/ \E file \in ImportFiles : uploadJSON(file)
  \/ \E c \in BagToSet(inflight) : ServerOk(c)
  \/ \E c \in BagToSet(inflight) : loadJobsFailed(c)
  \/ \E c \in BagToSet(inflight) : loadAllResolved(c)
  \/ \E c \in BagToSet(inflight) : updateCandidateResolved(c)

SpecStages == Init /\ [][NextStages]_vars

\* The candidate with this id has an entry in the column of stage s.
Shows(view, s, id) == \E k \in 1..Len(view[s]) : view[s][k].id = id

ColumnOf(stage) ==
  LET v == toLowerCase(stage) IN
    IF isStage(stage) THEN stage
    ELSE IF v \in { "applied", "interview stage 1" } THEN "Interview: First Round"
    ELSE IF v \in { "screening", "interview stage 2" } THEN "Interview: Second Round"
    ELSE IF v \in { "offer", "interview" } THEN "Interview: Final round"
    ELSE "Sourced"

C13_StageMembership ==
  [][ \A over \in Columns :
        \A i \in 1..Len(IF job = << >> THEN << >> ELSE job[1].candidates) :
          onDragEnd(job[1].candidates[i].id, over)
            => /\ isStage(targetStageOf(job[1], over))
               /\ isStage(job[1].candidates[i].stage) ]_vars

\* A board of candidates with overlapping tags in mixed case, one without tags,
\* as localStorage may hold it.
TaggedBoard ==
  JSONstringify(
    [ jobs |-> << [ id |-> 1, title |-> "Frontend Engineer", jd |-> Null,
                    candidates |-> <<
                      [ id |-> 11, stage |-> "Sourced", score |-> NoScore, resume |-> Null,
                        tags |-> << "React", "TypeScript" >> ],
                      [ id |-> 12, stage |-> "Sourced", score |-> NoScore, resume |-> Null,
                        tags |-> << "react" >> ],
                      [ id |-> 13, stage |-> "Hired", score |-> NoScore, resume |-> Null,
                        tags |-> << "TypeScript", "Docker" >> ],
                      [ id |-> 14, stage |-> "Sourced", score |-> NoScore, resume |-> Null ],
                      [ id |-> 15, stage |-> "Sourced", score |-> NoScore, resume |-> Null,
                        tags |-> << "REACT", "typescript" >> ] >> ] >>,
      selectedJobId |-> 1 ])

\* What the user may leave in the tags box.
TagInputs ==
  { << >>, << "react" >>, << "React", "TypeScript" >>, << "typescript", "docker" >>,
    << "Docker", "React" >> }

InitView == InitFrom(MaxOps, { TaggedBoard }, { FALSE })

NextView ==
  \/ \E tags \in TagInputs : setFilters(tags)
  \/ \E id \in Ids(filtered(state.jobs[1])) : \E over \in Columns : onDragEnd(id, over)

\* Local mode, the tagged board, the user sets the tag filter and drags the cards
\* the board shows.
SpecView == InitView /\ [][NextView]_vars

\* Candidate c carries tag t, compared without regard to case.
Carries(c, t) ==
  \E k \in 1..Len(tagsOf(c)) : toLowerCase(tagsOf(c)[k]) = toLowerCase(t)

\* C14: with a non-empty tag filter T the filtered list is exactly the candidates
\* of the shown job that carry every tag of T, compared without regard to case,
\* in the order the job holds them; a candidate carrying only some is left out.
C14_TagFilterConjunctive ==
  (job # << >> /\ filters.tags # << >>) =>
    LET all == job[1].candidates
        keep == { i \in 1..Len(all) :
                    \A n \in 1..Len(filters.tags) : Carries(all[i], filters.tags[n]) }
        list == filtered(job[1])
    IN /\ Len(list) = Cardinality(keep)
       /\ \A k \in 1..Len(list) :
            list[k] = all[CHOOSE i \in keep : Cardinality({ m \in keep : m < i }) = k - 1]

\* The filter React, TypeScript keeps candidates 11 and 15 (REACT, typescript)
\* and leaves out 12 (react only) and 13 (TypeScript only).
C14_Witness ==
  /\ filters.tags = << "React", "TypeScript" >>
  /\ Len(filtered(job[1])) = 2
  /\ filtered(job[1])[1].id = 11
  /\ filtered(job[1])[2].id = 15
  /\ { 12, 13 } \subseteq Ids(job[1].candidates)

\* A text JSON.parse throws on.
Unparseable == [ kind |-> "text", doc |-> "{ jobs: " ]

\* A JSON document that is not an ATSState: it has no jobs list.
WrongShape == JSONstringify([ version |-> 1 ])

\* localStorage as the program may find it at start: never set, not JSON, JSON
\* of another shape, or a snapshot written by an earlier session.
SnapshotInputs ==
  { NoItem, Unparseable, WrongShape,
    JSONstringify([ jobs |-> << [ id |-> 1, title |-> "Frontend Engineer", jd |-> Null,
                                  candidates |-> << [ id |-> 2, stage |-> "Hired",
                                                      score |-> NoScore, resume |-> Null ] >> ] >>,
                    selectedJobId |-> 1 ]) }

\* Export JSON: the file downloadJSON writes.
downloadJSON == JSONstringify(state)

InitSnapshot == InitFrom(MaxOps, SnapshotInputs, { FALSE })

\* A tree that threw while rendering takes no event.
NextSnapshot ==
  /\ Renders(state)
  /\ \/ \E file \in ImportFiles \cup { Unparseable, WrongShape, downloadJSON } : uploadJSON(file)
     \/ \E data \in CandidateInputs :
          job # << >> /\ createCandidate(job[1].id, data, Null)
     \/ \E vals \in CandidateInputs : \E id \in Ids(IF job = << >> THEN << >> ELSE job[1].candidates) :
          CandidateFormSubmit(job[1].id, id, vals)
     \/ \E vals \in JobFormInputs : createJob([ title |-> vals.title ], vals.file)
     \/ job # << >> /\ deleteJob(job[1].id)

\* Local mode from any content of localStorage; the user edits the board and
\* exports and imports files.
SpecSnapshot == InitSnapshot /\ [][NextSnapshot]_vars

\* C15: importing the file Export JSON writes from the current state leaves the
\* store equal to the exported state (jobs in order, candidates, selectedJobId)
\* and reports the import.
C15_ExportImportRoundTrip ==
  [][ (Renders(state) /\ uploadJSON(downloadJSON))
        => (state' = state /\ shown' = << Msg("State imported") >>) ]_vars

\* An export was imported back into a board holding a candidate added in this
\* session without a score, which the document leaves out, and one with a score.
C15_Witness ==
  /\ shown = << Msg("State imported") >>
  /\ Renders(state)
  /\ \E x \in AllCandidates(state) : x.id = 5 /\ x.score = NoScore
  /\ \E x \in AllCandidates(state) : x.score # NoScore
  /\ ops = 0

\* A document of the ATSState shape: it holds a jobs list.
WellFormed(doc) == "jobs" \in DOMAIN doc

\* C16: an import either replaces the whole state with the well-formed state
\* parsed from the file, or, for a file that is not JSON or is JSON without a
\* jobs list, leaves the state as it was.
C16_ImportAllOrNothing ==
  [][ \A file \in ImportFiles \cup { Unparseable, WrongShape } :
        (Renders(state) /\ uploadJSON(file))
          => IF file.kind = "json" /\ WellFormed(JSONparse(file))
             THEN state' = JSONparse(file)
             ELSE state' = state ]_vars

\* The seed state as the initializer returns it: its one job selected.
SeededState == [ SeedState EXCEPT !.selectedJobId = SeedState.jobs[1].id ]

\* C17: at mount, before any event, the state is the one a well-formed snapshot
\* in localStorage gives, and for every other content (none, not JSON, JSON of
\* another shape) it is the seed state: one job with three candidates, selected.
C17_SeedFallback ==
  ops = MaxOps =>
    \/ \E raw \in SnapshotInputs :
         raw.kind = "json" /\ WellFormed(JSONparse(raw)) /\ state = InitialState(raw)
    \/ /\ state = SeededState
       /\ Len(state.jobs) = 1
       /\ Len(state.jobs[1].candidates) = 3
       /\ state.selectedJobId = state.jobs[1].id

\* What the user drops on the board: one file, or two.
FileBatches == { << "a.pdf" >>, << "a.pdf", "b.pdf" >> }

InitIntake == InitWith(MaxOps)

NextIntake ==
  \/ \E files \in FileBatches : onResumeFiles(files)
  \/ \E c \in BagToSet(inflight) : ServerOk(c)
  \/ \E c \in BagToSet(inflight) : loadJobsFailed(c)
  \/ \E c \in BagToSet(inflight) : loadAllResolved(c)
  \/ \E c \in BagToSet(inflight) : intakeUploadResolved(c)
  \/ \E c \in BagToSet(inflight) : intakeUploadRejected(c)
  \/ \E c \in BagToSet(inflight) : intakeCandidateResolved(c)

\* Either mode; the user only drops batches of resumes on the board.
SpecIntake == InitIntake /\ [][NextIntake]_vars

\* The entries that state' holds beyond those of state, job by job.
Added ==
  UNION { { state'.jobs[n].candidates[m] :
              m \in (Len(state.jobs[n].candidates) + 1)..Len(state'.jobs[n].candidates) } :
          n \in 1..Len(state.jobs) }

\* C18: every candidate a bulk intake adds, in Local mode and in Remote mode, is
\* in stage Sourced and carries the FileReference of its file as resume.
C18_IntakeKeepsResume ==
  [][ ((\E files \in FileBatches : onResumeFiles(files))
        \/ (\E c \in BagToSet(inflight) : intakeCandidateResolved(c)))
        => (Len(state'.jobs) = Len(state.jobs)
            /\ \A x \in Added : x.stage = "Sourced" /\ x.resume # Null) ]_vars

\* The step is the loop of a bulk intake resuming with a file that failed: its
\* upload threw, or its insert was refused.
IntakeFailure(c) ==
  \/ intakeUploadRejected(c)
  \/ intakeCandidateResolved(c) /\ Refused(c)

\* C19: in Remote mode a file of a bulk intake that fails (upload or insert) is
\* reported and adds nothing, and the batch goes on: the upload of the next file
\* is then awaited, or, after the last file, the batch closes; a file that
\* succeeds adds exactly one candidate to its job.  In Local mode a batch of n
\* files adds n candidates.
C19_BatchSurvivesFailure ==
  [][ /\ \A c \in BagToSet(inflight) :
           /\ IntakeFailure(c) =>
                /\ shown'[1] \in { Msg("Upload failed"), Msg("Add candidate failed") }
                /\ state' = state
                /\ IF c.arg.rest # << >>
                   THEN BagIn(intakeUpload(c.jobId, Head(c.arg.rest), Tail(c.arg.rest),
                                           c.arg.total), inflight')
                   ELSE shown'[Len(shown')] = Uploaded(c.arg.total)
           /\ (intakeCandidateResolved(c) /\ ~Refused(c)) =>
                /\ Cardinality(Added) = 1
                /\ \A n \in 1..Len(state.jobs) :
                     Len(state'.jobs[n].candidates) =
                       Len(state.jobs[n].candidates) + (IF state.jobs[n].id = c.jobId THEN 1 ELSE 0)
                /\ (c.arg.rest # << >>) =>
                     BagIn(intakeUpload(c.jobId, Head(c.arg.rest), Tail(c.arg.rest),
                                        c.arg.total), inflight')
      /\ \A files \in FileBatches :
           (~Remote /\ onResumeFiles(files)) =>
             \A n \in 1..Len(state.jobs) :
               Len(state'.jobs[n].candidates) =
                 Len(state.jobs[n].candidates) + (IF state.jobs[n].id = job[1].id THEN Len(files) ELSE 0)
    ]_vars

\* A batch of two files has closed in Remote mode: the first file failed and
\* the second gave the one candidate added to the loaded jobs.
C19_Witness ==
  /\ Remote
  /\ shown = << Msg("Candidate added"), Uploaded(2) >>
  /\ inflight = EmptyBag
  /\ Cardinality(AllCandidates(state)) = Len(DemoDB.cands) + 1
  /\ Len(remote.cands) = Len(DemoDB.cands) + 1

\* C20: every step in which a call that failed ends its handler, a failed
\* attachment upload inside createJob or createCandidate included, passes a
\* failure message to show(): no failure ends a helper silently.
C20_EveryFailureReported ==
  [][ \A c \in BagToSet(inflight) :
        (Refused(c) /\ Ended(c))
          => (Len(shown') > 0 /\ shown'[1][1] \in FailureTexts \cup { "Upload failed" }) ]_vars

\* C21: every job of the store, and every row of the remote jobs table, has a
\* non-empty title.
C21_TitleNonEmpty ==
  /\ \A n \in 1..Len(state.jobs) : state.jobs[n].title # ""
  /\ \A n \in 1..Len(remote.jobs) : remote.jobs[n].title # ""

\* A board written by an earlier version, as localStorage may hold it: stages
\* under legacy names and a stage no version knows, next to Stage values.
LegacyBoard ==
  JSONstringify(
    [ jobs |-> << [ id |-> 1, title |-> "Frontend Engineer", jd |-> Null,
                    candidates |-> <<
                      [ id |-> 21, stage |-> "Sourced", score |-> NoScore, resume |-> Null ],
                      [ id |-> 22, stage |-> "applied", score |-> 70, resume |-> Null,
                        tags |-> << "React" >> ],
                      [ id |-> 23, stage |-> "Unknown", score |-> NoScore, resume |-> Null ],
                      [ id |-> 24, stage |-> "Hired", score |-> 90, resume |-> Null,
                        tags |-> << "react", "TypeScript" >> ] >> ] >>,
      selectedJobId |-> 1 ])

InitCards == InitFrom(MaxOps, { LegacyBoard }, BOOLEAN)

\* The cards the board shows are dragged, or a card that is gone by the time
\* of the drop (NullId), onto a column, a card, or nothing the board knows.
NextCards ==
  \/ \E n \in 1..Len(state.jobs) :
       \E id \in Ids(filtered(state.jobs[n])) \cup { NullId } :
         \E over \in DropTargets(state.jobs[n]) :
           job # << >> /\ job[1].id = state.jobs[n].id /\ onDragEnd(id, over)
  \/ \E tags \in { << >>, << "react" >> } : setFilters(tags)
  \/ \E c \in BagToSet(inflight) : ServerOk(c)
  \/ \E c \in BagToSet(inflight) : loadJobsFailed(c)
  \/ \E c \in BagToSet(inflight) : loadAllResolved(c)
  \/ \E c \in BagToSet(inflight) : updateCandidateResolved(c)

\* Either mode over the legacy board; the user filters by tag and drags cards.
SpecCards == InitCards /\ [][NextCards]_vars

\* C22: in Local mode a card dropped on the card of another candidate of the
\* board ends in the column that candidate is displayed in, also when that
\* candidate's stored stage is not a Stage value.
C22_DropOnCardResolves ==
  [][ job # << >> =>
        \A i, k \in 1..Len(job[1].candidates) :
          LET x == job[1].candidates[i]
              y == job[1].candidates[k]
          IN (~Remote /\ x.id # y.id /\ onDragEnd(x.id, [ stage |-> Null, id |-> y.id ]))
               => \A z \in AllCandidates(state') :
                    z.id = x.id => normalizeStage(z.stage) = normalizeStage(y.stage) ]_vars

\* C23: a drop whose dragged card is not a candidate of the shown job, or whose
\* target is neither a column nor the card of a candidate of the job, sends no
\* call, changes neither the store nor the tables nor the snapshot, and shows
\* nothing, in either mode.
C23_UnresolvedDropIsDropped ==
  [][ job # << >> =>
        \A id \in Ids(job[1].candidates) \cup { NullId } :
          \A over \in DropTargets(job[1]) :
            (/\ \/ id \notin Ids(job[1].candidates)
                \/ (~isStage(over.stage) /\ over.id \notin Ids(job[1].candidates))
             /\ onDragEnd(id, over))
              => /\ UNCHANGED << state, inflight, remote, storage >>
                 /\ shown' = << >> ]_vars

\* Remote mode with every user event spent: the move of a card is still awaited,
\* the event after it (a drop that resolved nothing) showed nothing, and the store
\* is as it was mounted.
C23_Witness ==
  /\ Remote
  /\ ops = 0
  /\ shown = << >>
  /\ \E c \in BagToSet(inflight) : c.op = "updateCandidate" /\ c.phase = "sent"
  /\ state = InitialState(LegacyBoard)

\* Where a candidate of a list without duplicate ids stands in it.
IndexOf(list, id) == CHOOSE n \in 1..Len(list) : list[n].id = id

\* C24: the six buckets partition the filtered list of the shown job: every
\* candidate of the list is in exactly one bucket, the bucket sizes sum to the
\* length of the list, and a bucket keeps the order of the list.
C24_GroupingIsPartition ==
  job # << >> =>
    LET list == filtered(job[1])
        res == byStage(list)
        counts == stageCounts(list)
    IN /\ \A n \in 1..Len(list) :
            Cardinality({ s \in StageSet : list[n].id \in Ids(res[s]) }) = 1
       /\ counts[1] + counts[2] + counts[3] + counts[4] + counts[5] + counts[6] = Len(list)
       /\ \A s \in StageSet : \A a, b \in 1..Len(res[s]) :
            /\ res[s][a].id \in Ids(list)
            /\ a < b => IndexOf(list, res[s][a].id) < IndexOf(list, res[s][b].id)

\* A card was moved to the first column, which now shows three cards in the
\* order of the list, one of them stored with a stage that is no Stage value.
C24_Witness ==
  /\ job # << >>
  /\ ops < MaxOps
  /\ Len(filtered(job[1])) = 4
  /\ Ids(byStage(filtered(job[1]))["Sourced"]) = { 21, 23, 24 }
  /\ \E n \in 1..Len(job[1].candidates) : ~isStage(job[1].candidates[n].stage)

\* Local mode without a Supabase client: the mount over no snapshot or over the
\* legacy board, then every operation on jobs and candidates.
InitLocal == InitFrom(MaxOps + 1, { NoItem, LegacyBoard }, { FALSE })

NextLocal ==
  \/ \E id \in Ids(state.jobs) : selectJob(id)
  \/ \E vals \in JobFormInputs : createJob([ title |-> vals.title ], vals.file)
  \/ \E patch \in JobInputs : job # << >> /\ updateJob(job[1].id, patch)
  \/ job # << >> /\ deleteJob(job[1].id)
  \/ \E data \in CandidateInputs :
       job # << >> /\ createCandidate(job[1].id, data, Null)
  \/ \E vals \in CandidateInputs : \E n \in 1..Len(state.jobs) :
       \E id \in Ids(state.jobs[n].candidates) :
         job # << >> /\ job[1].id = state.jobs[n].id /\ CandidateFormSubmit(job[1].id, id, vals)
  \/ \E n \in 1..Len(state.jobs) : \E id \in Ids(state.jobs[n].candidates) :
       job # << >> /\ job[1].id = state.jobs[n].id /\ deleteCandidate(job[1].id, id)
  \/ \E n \in 1..Len(state.jobs) :
       \E id \in Ids(state.jobs[n].candidates) \cup { NullId } :
         \E over \in DropTargets(state.jobs[n]) :
           job # << >> /\ job[1].id = state.jobs[n].id /\ onDragEnd(id, over)

SpecLocal == InitLocal /\ [][NextLocal]_vars

\* C25: in Local mode an operation on jobs or candidates sends no call and shows
\* no failure, and after it the snapshot is the serialisation of the store and
\* reads back as the store.
C25_LocalSnapshotAgrees ==
  [][ persistMode = "local" =>
        /\ inflight' = inflight
        /\ \A k \in 1..Len(shown') : shown'[k][1] \notin FailureTexts \cup { "Upload failed" }
        /\ storage' = JSONstringify(state')
        /\ JSONparse(storage') = state' ]_vars

\* Every operation of the run has been applied, the store holds two jobs, the
\* second of them is selected, and the snapshot holds the store.
C25_Witness ==
  /\ persistMode = "local"
  /\ ops = 0
  /\ Len(state.jobs) = 2
  /\ state.selectedJobId = state.jobs[2].id
  /\ storage = JSONstringify(state)

\* C26: while nothing is deleted and the mode is not switched, a job or a
\* candidate of the store that is a row of the remote tables stays in the store;
\* a load that resolves does not remove a record created after its select.
C26_CreatedRecordStays ==
  [][ Remote =>
        /\ \A id \in Ids(state.jobs) \cap Ids(remote.jobs) : id \in Ids(state'.jobs)
        /\ \A x \in AllCandidates(state) :
             x.id \in Ids(remote.cands) => \E y \in AllCandidates(state') : y.id = x.id ]_vars

\* The tables holding one job with two candidates.
TeamDB ==
  [ jobs |-> << [ id |-> 101, title |-> "Backend Engineer", jd |-> Null ] >>,
    cands |-> << [ id |-> 103, job_id |-> 101, stage |-> "Sourced", score |-> 82, resume |-> Null ],
                 [ id |-> 104, job_id |-> 101, stage |-> "Sourced", score |-> NoScore, resume |-> Null ] >> ]

\* Remote mode once the load effect has set the store from TeamDB.
InitWrites ==
  /\ supaReady = TRUE
  /\ persistMode = "supabase"
  /\ remote = TeamDB
  /\ state = mapRowsToState(TeamDB.jobs, TeamDB.cands)
  /\ storage = NoItem
  /\ inflight = EmptyBag
  /\ filters = [ tags |-> << >> ]
  /\ nextId = 5
  /\ ops = MaxOps + 1
  /\ shown = << >>

\* The drags of the run: each card has one column it is dropped on.
CardMoves == { [ id |-> 103, stage |-> "Hired" ], [ id |-> 104, stage |-> "Rejected" ] }

\* Writes that do not wait for each other: drags of the two cards, a delete of
\* a card, an edit of the job's title; the server; the handlers resuming.
NextWrites ==
  \/ \E p \in CardMoves :
       job # << >> /\ onDragEnd(p.id, [ stage |-> p.stage, id |-> NullId ])
  \/ \E id \in { 103, 104 } :
       job # << >> /\ id \in Ids(job[1].candidates) /\ deleteCandidate(job[1].id, id)
  \/ job # << >> /\ updateJob(job[1].id, [ title |-> "QA Engineer" ])
  \/ \E c \in BagToSet(inflight) : ServerOk(c)
  \/ \E c \in BagToSet(inflight) : updateJobResolved(c)
  \/ \E c \in BagToSet(inflight) : updateCandidateResolved(c)
  \/ \E c \in BagToSet(inflight) : deleteCandidateResolved(c)

SpecWrites == InitWrites /\ [][NextWrites]_vars

\* C27: once every write in flight has resolved, whatever the order, the store
\* holds the job titles, the candidates and the candidate stages of the remote
\* tables: no confirmed write on one record was lost to a write on another.
C27_NoLostUpdate ==
  inflight = EmptyBag =>
    /\ Ids(state.jobs) = Ids(remote.jobs)
    /\ \A n \in 1..Len(state.jobs) : \A m \in 1..Len(remote.jobs) :
         state.jobs[n].id = remote.jobs[m].id => state.jobs[n].title = remote.jobs[m].title
    /\ { [ id |-> x.id, stage |-> x.stage ] : x \in AllCandidates(state) }
         = { [ id |-> remote.cands[m].id, stage |-> remote.cands[m].stage ] :
               m \in 1..Len(remote.cands) }

\* Three writes were in flight and have resolved: the store shows the new
\* title and both cards in their new columns.
C27_Witness ==
  /\ inflight = EmptyBag
  /\ ops = 0
  /\ state.jobs[1].title = "QA Engineer"
  /\ { [ id |-> x.id, stage |-> x.stage ] : x \in AllCandidates(state) }
       = { [ id |-> 103, stage |-> "Hired" ], [ id |-> 104, stage |-> "Rejected" ] }

\* C28: in Remote mode a step shows "Moved to <stage>" or "Candidate updated"
\* only if it resumes an update of a candidate that the server confirmed, and
\* the store then holds the new stage of that candidate.
C28_ConfirmationAfterApplied ==
  [][ (Remote /\ \E k \in 1..Len(shown') : shown'[k][1] \in { "Moved to", "Candidate updated" })
        => \E c \in BagToSet(inflight) :
             /\ c.op = "updateCandidate" /\ c.phase = "ok" /\ Consumed(c)
             /\ \A x \in AllCandidates(state') : x.id = c.candId => x.stage = c.arg.stage ]_vars

\* The tables holding three jobs.
JobsDB ==
  [ jobs |-> << [ id |-> 101, title |-> "Backend Engineer", jd |-> Null ],
                [ id |-> 102, title |-> "Designer", jd |-> Null ],
                [ id |-> 103, title |-> "QA Engineer", jd |-> Null ] >>,
    cands |-> << [ id |-> 104, job_id |-> 102, stage |-> "Sourced", score |-> 82, resume |-> Null ] >> ]

\* Remote mode once the load effect has set the store from JobsDB.
InitJobs ==
  /\ supaReady = TRUE
  /\ persistMode = "supabase"
  /\ remote = JobsDB
  /\ state = mapRowsToState(JobsDB.jobs, JobsDB.cands)
  /\ storage = NoItem
  /\ inflight = EmptyBag
  /\ filters = [ tags |-> << >> ]
  /\ nextId = 5
  /\ ops = MaxOps + 1
  /\ shown = << >>

\* The job selector and the delete of the shown job; the server; the handler
\* resuming.
NextJobs ==
  \/ \E id \in Ids(state.jobs) : selectJob(id)
  \/ job # << >> /\ deleteJob(job[1].id)
  \/ \E c \in BagToSet(inflight) : ServerOk(c)
  \/ \E c \in BagToSet(inflight) : deleteJobResolved(c)

SpecJobs == InitJobs /\ [][NextJobs]_vars

\* C29: a delete of a job that is applied while another job, which stays in the
\* store, is the selected one leaves selectedJobId as it is.
C29_DeleteKeepsOtherSelection ==
  [][ \A id \in Ids(state.jobs) :
        (/\ state'.jobs = Filter(state.jobs, LAMBDA j : j.id # id)
         /\ state.selectedJobId # id
         /\ state.selectedJobId \in Ids(state'.jobs))
          => state'.selectedJobId = state.selectedJobId ]_vars

\* C30: the snapshot changes only in a step that changes the store while the
\* mode is Local before and after it; a change of the store in Remote mode and
\* a switch of the mode leave the snapshot as it is.
C30_SnapshotWrittenByLocalMutation ==
  [][ storage' # storage
        => (persistMode = "local" /\ persistMode' = "local" /\ state' # state) ]_vars

====
